---- MODULE Spec2Model ----
(***************************************************************************)
(* Model of compatibility_layer.py: the mock DataFrame / Series / Rolling  *)
(* classes and the synthetic OHLCV generator.                              *)
(*                                                                         *)
(* The specifications of the module:                                       *)
(*   SpecRolling  MockSeries.rolling and MockRolling.max / min / mean      *)
(*   SpecSeries   MockSeries.dropna and MockPandas.isna                    *)
(*   SpecFrame    MockDataFrame objects on a heap of dicts                 *)
(*   SpecAssign   construction and __setitem__ alone, on the same heap     *)
(*   SpecRead     positional reads of one MockDataFrame                    *)
(*   SpecGen      generate_mock_price_data                                 *)
(***************************************************************************)
EXTENDS Integers, Sequences, FiniteSets, TLC

VARIABLES
    series,      \* MockSeries.data / MockRolling.data of the series under test
    window,      \* MockRolling.window, 0 while no MockRolling exists
    rolled,      \* which of "max", "min", "mean" were called on that MockRolling
    rollMax,     \* MockSeries.data returned by MockRolling.max()
    rollMin,     \* MockSeries.data returned by MockRolling.min()
    rollMean,    \* MockSeries.data returned by MockRolling.mean()
    column,      \* MockSeries.data of the column dropna is called on
    dropped,     \* [called, data]: the MockSeries.data returned by dropna()
    dicts,       \* heap of Python dicts: id -> insertion-ordered <<key, list>> items
    frames,      \* MockDataFrame objects: frame -> id of the dict its .data refers to
    last,        \* the last MockDataFrame call: operation, arguments, result
    genCall,     \* arguments of the generate_mock_price_data call, and whether it ran
    rng,         \* what the random module delivers to it, one entry per row
    table        \* items of the dict of the MockDataFrame it returned

vars == <<series, window, rolled, rollMax, rollMin, rollMean, column, dropped,
          dicts, frames, last, genCall, rng, table>>

----------------------------------------------------------------------------
(* Bounds of the model *)

MaxLen == 3        \* longest list drawn as an input
MaxWindow == 3     \* largest rolling window drawn
PrecBits == 3      \* significand bits of the modelled binary floating point
MaxFrames == 2     \* MockDataFrame objects alive at once
MaxRows == 2       \* largest limit passed to generate_mock_price_data

Max2(a, b) == IF a >= b THEN a ELSE b
Min2(a, b) == IF a <= b THEN a ELSE b
Abs(a) == IF a < 0 THEN -a ELSE a

RECURSIVE Pow2(_)
Pow2(n) == IF n = 0 THEN 1 ELSE 2 * Pow2(n - 1)

----------------------------------------------------------------------------
(* Python list indexing and slicing (0-based, on 1-based TLA+ sequences) *)

None == -999999

\* s[start:stop] with integer or None bounds, step 1: a negative bound counts
\* from the end, and both bounds are clamped into 0..len(s).
PyClamp(i, n) == IF i < 0 THEN Max2(i + n, 0) ELSE Min2(i, n)
PySlice(s, start, stop) ==
    LET n  == Len(s)
        lo == IF start = None THEN 0 ELSE PyClamp(start, n)
        hi == IF stop = None THEN n ELSE PyClamp(stop, n)
    IN  IF lo >= hi THEN <<>> ELSE SubSeq(s, lo + 1, hi)

\* s[i] succeeds for -len(s) <= i < len(s) and raises IndexError otherwise.
PyIndexOk(s, i) == -Len(s) <= i /\ i < Len(s)
PyIndex(s, i) == IF i < 0 THEN s[i + Len(s) + 1] ELSE s[i + 1]

----------------------------------------------------------------------------
(* Binary floating point, round to nearest, ties to even.  A number is an  *)
(* integer count of the smallest positive float; it is representable when  *)
(* its significand fits in PrecBits bits.                                  *)

RECURSIVE Ulp(_)
Ulp(x) == IF x < Pow2(PrecBits) THEN 1 ELSE 2 * Ulp(x \div 2)

Representable(x) == Abs(x) % Ulp(Abs(x)) = 0

\* the float nearest to the rational p / q, for p >= 0 and q > 0
RoundPos(p, q) ==
    LET step == Ulp(p \div q)
        k    == p \div (q * step)
        r    == p - k * q * step
    IN  IF 2 * r < q * step THEN k * step
        ELSE IF 2 * r > q * step THEN (k + 1) * step
        ELSE IF k % 2 = 0 THEN k * step ELSE (k + 1) * step

RoundRat(p, q) == IF p >= 0 THEN RoundPos(p, q) ELSE -RoundPos(-p, q)

FAdd(a, b) == RoundRat(a + b, 1)     \* float + float
FDiv(a, n) == RoundRat(a, n)         \* float / int

\* sum(xs): starts from int 0 and adds the items left to right
RECURSIVE PySum(_)
PySum(xs) == IF xs = <<>> THEN 0 ELSE FAdd(PySum(SubSeq(xs, 1, Len(xs) - 1)), xs[Len(xs)])

RECURSIVE PyMax(_)
PyMax(xs) == IF Len(xs) = 1 THEN xs[1] ELSE Max2(PyMax(SubSeq(xs, 1, Len(xs) - 1)), xs[Len(xs)])

RECURSIVE PyMin(_)
PyMin(xs) == IF Len(xs) = 1 THEN xs[1] ELSE Min2(PyMin(SubSeq(xs, 1, Len(xs) - 1)), xs[Len(xs)])

----------------------------------------------------------------------------
(* MockSeries.rolling and MockRolling *)

\* the numeric inputs: floats of the modelled format, negative and positive
SeriesValues == {-24, 8, 24, 56}

RECURSIVE ListsUpTo(_, _)
ListsUpTo(S, n) ==
    IF n = 0 THEN {<<>>}
    ELSE LET shorter == ListsUpTo(S, n - 1)
         IN  shorter \cup {Append(xs, v) : xs \in {ys \in shorter : Len(ys) = n - 1}, v \in S}

\* start = max(0, i - self.window + 1)
RollStartShifted(i, w) == Max2(0, i - w)
RollStart(i, w) == Max2(0, i - w + 1)

\* window_data = self.data[start:i+1]
WindowData(data, w, i) == PySlice(data, RollStart(i, w), i + 1)

\* the same loop with start = i - self.window + 1, not clamped at 0
MockRollingMaxUnclamped(data, w) ==
    [k \in 1..Len(data) |->
        LET window_data == PySlice(data, k - 1 - w + 1, k)
        IN  IF window_data # <<>> THEN PyMax(window_data) ELSE 0]

MockRollingMax(data, w) ==
    [k \in 1..Len(data) |->
        LET window_data == WindowData(data, w, k - 1)
        IN  IF window_data # <<>> THEN PyMax(window_data) ELSE 0]

MockRollingMin(data, w) ==
    [k \in 1..Len(data) |->
        LET window_data == WindowData(data, w, k - 1)
        IN  IF window_data # <<>> THEN PyMin(window_data) ELSE 0]

MockRollingMean(data, w) ==
    [k \in 1..Len(data) |->
        LET window_data == WindowData(data, w, k - 1)
        IN  IF window_data # <<>> THEN FDiv(PySum(window_data), Len(window_data)) ELSE 0]

RollingIdle ==
    /\ column = <<>> /\ dropped = [called |-> FALSE, data |-> <<>>]
    /\ dicts = <<>> /\ frames = <<>> /\ last = [op |-> "none"]
    /\ genCall = [called |-> FALSE] /\ rng = <<>> /\ table = <<>>

InitRolling ==
    /\ series \in ListsUpTo(SeriesValues, MaxLen)
    /\ window = 0
    /\ rolled = {}
    /\ rollMax = <<>> /\ rollMin = <<>> /\ rollMean = <<>>
    /\ RollingIdle

\* MockSeries.rolling(window): a MockRolling over the same data
SeriesRolling(w) ==
    /\ window' = w
    /\ rolled' = {}
    /\ rollMax' = <<>> /\ rollMin' = <<>> /\ rollMean' = <<>>
    /\ UNCHANGED <<series, column, dropped, dicts, frames, last, genCall, rng, table>>

RollingMax ==
    /\ window # 0
    /\ rollMax' = MockRollingMax(series, window)
    /\ rolled' = rolled \cup {"max"}
    /\ UNCHANGED <<series, window, rollMin, rollMean, column, dropped, dicts, frames, last, genCall, rng, table>>

RollingMin ==
    /\ window # 0
    /\ rollMin' = MockRollingMin(series, window)
    /\ rolled' = rolled \cup {"min"}
    /\ UNCHANGED <<series, window, rollMax, rollMean, column, dropped, dicts, frames, last, genCall, rng, table>>

RollingMean ==
    /\ window # 0
    /\ rollMean' = MockRollingMean(series, window)
    /\ rolled' = rolled \cup {"mean"}
    /\ UNCHANGED <<series, window, rollMax, rollMin, column, dropped, dicts, frames, last, genCall, rng, table>>

NextRolling ==
    \/ \E w \in 1..MaxWindow : SeriesRolling(w)
    \/ RollingMax
    \/ RollingMin
    \/ RollingMean

SpecRolling == InitRolling /\ [][NextRolling]_vars

----------------------------------------------------------------------------
(* Reference definitions for the rolling properties: the window as an     *)
(* index set, and its exact (unrounded) aggregates.                        *)

\* 1-based positions of S[max(0, i-W+1) .. i] for the 0-based position i
WindowIdx(i, w) == {j \in 1..(i + 1) : j >= i - w + 2}

SetMax(S) == CHOOSE m \in S : \A x \in S : m >= x
SetMin(S) == CHOOSE m \in S : \A x \in S : m <= x

RECURSIVE ExactSum(_, _)
ExactSum(s, J) == IF J = {} THEN 0 ELSE LET j == CHOOSE x \in J : TRUE IN s[j] + ExactSum(s, J \ {j})

\* every running sum of the window, taken left to right, is a float
RunningSumsExact(s, i, w) ==
    \A j \in WindowIdx(i, w) : Representable(ExactSum(s, {x \in WindowIdx(i, w) : x <= j}))

Positions == 0..(Len(series) - 1)

\* C1 (as amended): rolling(W).max(), .min() and .mean() each return a column of
\* length N (empty for empty S); element i of max / min is the largest /
\* smallest element of S[max(0, i-W+1) .. i]; element i of mean is the
\* arithmetic mean of that window rounded to the nearest float whenever the
\* running sums of the window are computed without rounding.
C1_RollingWindow ==
    /\ "max" \in rolled =>
        /\ Len(rollMax) = Len(series)
        /\ \A i \in Positions : rollMax[i + 1] = SetMax({series[j] : j \in WindowIdx(i, window)})
    /\ "min" \in rolled =>
        /\ Len(rollMin) = Len(series)
        /\ \A i \in Positions : rollMin[i + 1] = SetMin({series[j] : j \in WindowIdx(i, window)})
    /\ "mean" \in rolled =>
        /\ Len(rollMean) = Len(series)
        /\ \A i \in Positions :
              RunningSumsExact(series, i, window) =>
                 rollMean[i + 1] = RoundRat(ExactSum(series, WindowIdx(i, window)),
                                            Cardinality(WindowIdx(i, window)))

\* C1 witness: all three aggregates were taken over a full-length series with a
\* window that is truncated at the start and slides at the end, sums exact
C1_Witness ==
    /\ "max" \in rolled /\ "min" \in rolled /\ "mean" \in rolled
    /\ Len(series) = MaxLen /\ window = 2
    /\ series[1] # series[2] /\ series[2] # series[3]
    /\ \A i \in Positions : RunningSumsExact(series, i, window)

\* C1 as stated: element i of the rolling mean is the arithmetic mean of the
\* window (to the nearest float), for every numeric sequence
C1_MeanIsArithmeticMean ==
    "mean" \in rolled =>
        \A i \in Positions :
            rollMean[i + 1] = RoundRat(ExactSum(series, WindowIdx(i, window)),
                                       Cardinality(WindowIdx(i, window)))

\* C7 (as amended): at every position the rolling maximum is at least the
\* rolling minimum, and the rolling mean lies between them whenever the running
\* sums of the window are computed without rounding.
C7_MaxGeMin ==
    /\ ("max" \in rolled /\ "min" \in rolled) =>
          \A i \in Positions : rollMax[i + 1] >= rollMin[i + 1]
    /\ ("max" \in rolled /\ "min" \in rolled /\ "mean" \in rolled) =>
          \A i \in Positions :
              RunningSumsExact(series, i, window) =>
                  /\ rollMin[i + 1] <= rollMean[i + 1]
                  /\ rollMean[i + 1] <= rollMax[i + 1]

\* C7 witness: a window holding different values, mean strictly inside
C7_Witness ==
    /\ "max" \in rolled /\ "min" \in rolled /\ "mean" \in rolled
    /\ Len(series) >= 2 /\ window >= 2
    /\ RunningSumsExact(series, 1, window)
    /\ rollMin[2] < rollMean[2] /\ rollMean[2] < rollMax[2]

\* C7 as stated: the rolling mean lies between the rolling minimum and the
\* rolling maximum at every position of every numeric sequence
C7_MeanBetween ==
    ("max" \in rolled /\ "min" \in rolled /\ "mean" \in rolled) =>
        \A i \in Positions :
            /\ rollMin[i + 1] <= rollMean[i + 1]
            /\ rollMean[i + 1] <= rollMax[i + 1]

----------------------------------------------------------------------------
(* MockSeries.dropna and MockPandas.isna *)

NaN == -888888

\* a column may hold numbers, None and float('nan')
ColumnValues == {None, NaN, 1, 2}

\* x is None or (isinstance(x, float) and math.isnan(x))
isna(x) == x = None \/ x = NaN

\* [x for x in self.data if x is not None]
MockSeriesDropna(xs) == SelectSeq(xs, LAMBDA x : x # None)

SeriesIdle ==
    /\ series = <<>> /\ window = 0 /\ rolled = {}
    /\ rollMax = <<>> /\ rollMin = <<>> /\ rollMean = <<>>
    /\ dicts = <<>> /\ frames = <<>> /\ last = [op |-> "none"]
    /\ genCall = [called |-> FALSE] /\ rng = <<>> /\ table = <<>>

InitSeries ==
    /\ column \in ListsUpTo(ColumnValues, MaxLen)
    /\ dropped = [called |-> FALSE, data |-> <<>>]
    /\ SeriesIdle

Dropna ==
    /\ dropped' = [called |-> TRUE, data |-> MockSeriesDropna(column)]
    /\ UNCHANGED <<series, window, rolled, rollMax, rollMin, rollMean, column,
                   dicts, frames, last, genCall, rng, table>>

NextSeries == Dropna

SpecSeries == InitSeries /\ [][NextSeries]_vars

\* C5: drop_missing() returns exactly the elements for which is_missing is
\* false (None and NaN are missing), in their original order, so its length is
\* the column's length minus the number of missing elements.
C5_DropMissing ==
    dropped.called =>
        /\ dropped.data = SelectSeq(column, LAMBDA x : ~isna(x))
        /\ Len(dropped.data) = Len(column) - Cardinality({i \in 1..Len(column) : isna(column[i])})

----------------------------------------------------------------------------
(* MockDataFrame, MockIloc, MockSeriesIloc, MockRow.  A Python dict is the  *)
(* sequence of its <<key, list>> items in insertion order; dicts live on a  *)
(* heap and a MockDataFrame holds a reference to one of them.  Lists are    *)
(* values: no operation of the module changes a list in place.              *)

Keys == {"a", "b", "c"}

DictKeys(d) == {d[i][1] : i \in 1..Len(d)}
DictPos(d, k) == CHOOSE i \in 1..Len(d) : d[i][1] = k
DictGet(d, k) == d[DictPos(d, k)][2]

\* d[k] = v: an existing key keeps its place, a new key goes last
DictSet(d, k, v) ==
    IF k \in DictKeys(d)
    THEN [d EXCEPT ![DictPos(d, k)] = <<k, v>>]
    ELSE Append(d, <<k, v>>)

DataOf(f) == dicts[frames[f]]

\* MockDataFrame.__len__
FrameLen(d) == IF d = <<>> THEN 0 ELSE Len(d[1][2])

\* MockDataFrame.__getitem__(key).data
FrameGetItem(d, key) == IF key \in DictKeys(d) THEN DictGet(d, key) ELSE <<>>

\* MockDataFrame.__setitem__: value if isinstance(value, list) else [value]
SetItemValueReplicated(d, arg) ==
    IF arg.isList THEN arg.list ELSE [i \in 1..FrameLen(d) |-> arg.scalar]
SetItemValue(d, arg) == IF arg.isList THEN arg.list ELSE <<arg.scalar>>
FrameSetItem(d, key, arg) == DictSet(d, key, SetItemValue(d, arg))

\* MockDataFrame.tail: values[-n:] if len(values) >= n else values
TailValues(values, n) == IF Len(values) >= n THEN PySlice(values, -n, None) ELSE values
FrameTail(d, n) == [j \in 1..Len(d) |-> <<d[j][1], TailValues(d[j][2], n)>>]

\* MockDataFrame.head: values[:n] if len(values) >= n else values
HeadValues(values, n) == IF Len(values) >= n THEN PySlice(values, None, n) ELSE values
FrameHead(d, n) == [j \in 1..Len(d) |-> <<d[j][1], HeadValues(d[j][2], n)>>]

\* MockIloc.__getitem__(slice): start, stop = index.start or 0, index.stop or len(self.df)
IlocStart(a) == IF a = None \/ a = 0 THEN 0 ELSE a
IlocStop(d, b) == IF b = None \/ b = 0 THEN FrameLen(d) ELSE b
IlocSliceValues(d, values, a, b) == PySlice(values, IlocStart(a), IlocStop(d, b))
FrameIlocSlice(d, a, b) == [j \in 1..Len(d) |-> <<d[j][1], IlocSliceValues(d, d[j][2], a, b)>>]

\* values[index] if index < len(values) else 0, which raises IndexError when
\* index < -len(values)
ReadRaises(values, i) == i < Len(values) /\ ~PyIndexOk(values, i)
ReadValue(values, i) == IF i < Len(values) THEN PyIndex(values, i) ELSE 0

\* MockIloc.__getitem__(int): the row as a dict, unless a column read raises
RowRaises(d, i) == \E j \in 1..Len(d) : ReadRaises(d[j][2], i)
RowData(d, i) == [j \in 1..Len(d) |-> <<d[j][1], ReadValue(d[j][2], i)>>]

\* MockRow.__getitem__: self.data.get(key, 0)
RowGet(row, key) == IF key \in DictKeys(row) THEN DictGet(row, key) ELSE 0

NoCall == [op |-> "none", src |-> 0, dst |-> 0, key |-> "", a |-> 0, b |-> 0,
           arg |-> [isList |-> FALSE, scalar |-> 0, list |-> <<>>],
           raised |-> FALSE, value |-> 0, row |-> <<>>]

\* the columns a mapping is built from: position-coded values
ColumnOf(base, len) == [i \in 1..len |-> base + i]

Mappings ==
    {<<>>}
    \cup {<< <<"a", ColumnOf(10, la)>> >> : la \in 0..MaxLen}
    \cup {<< <<"a", ColumnOf(10, la)>>, <<"b", ColumnOf(20, lb)>> >> : la \in 0..MaxLen, lb \in 0..MaxLen}

UserMapping == 1

FrameIdle ==
    /\ series = <<>> /\ window = 0 /\ rolled = {}
    /\ rollMax = <<>> /\ rollMin = <<>> /\ rollMean = <<>>
    /\ column = <<>> /\ dropped = [called |-> FALSE, data |-> <<>>]
    /\ genCall = [called |-> FALSE] /\ rng = <<>> /\ table = <<>>

FrameOther == <<series, window, rolled, rollMax, rollMin, rollMean, column, dropped, genCall, rng, table>>

\* well-formed tables: every column of the mapping has the same length
FrameMappings == {m \in Mappings : \A i \in 1..Len(m) : Len(m[i][2]) = Len(m[1][2])}

InitFrame ==
    /\ dicts \in {<<m>> : m \in FrameMappings}
    /\ frames = <<>>
    /\ last = NoCall
    /\ FrameIdle

\* MockDataFrame.__init__: data = {} if data is None; self.data = data.
\* The result is the id of the dict the frame refers to.
InitData(data) == IF data = None THEN Len(dicts) + 1 ELSE data

Construct(op, data) ==
    /\ Len(frames) < MaxFrames
    /\ dicts' = IF data = None THEN Append(dicts, <<>>) ELSE dicts
    /\ frames' = Append(frames, InitData(data))
    /\ last' = [NoCall EXCEPT !.op = op, !.dst = Len(frames) + 1]
    /\ UNCHANGED FrameOther

\* MockDataFrame(data)
NewFrame(data) == Construct("new", data)

\* create_mock_dataframe(data): return MockDataFrame(data)
CreateMockDataframe(data) == Construct("create", data)

\* a method that returns MockDataFrame(new_data) for a dict it has just built
Derive(op, f, a, b, new_data) ==
    /\ Len(frames) < MaxFrames
    /\ dicts' = Append(dicts, new_data)
    /\ frames' = Append(frames, Len(dicts) + 1)
    /\ last' = [NoCall EXCEPT !.op = op, !.src = f, !.dst = Len(frames) + 1, !.a = a, !.b = b]
    /\ UNCHANGED FrameOther

MockTail(f, n) == Derive("tail", f, n, 0, FrameTail(DataOf(f), n))
MockHead(f, n) == Derive("head", f, n, 0, FrameHead(DataOf(f), n))
IlocSlice(f, a, b) == Derive("slice", f, a, b, FrameIlocSlice(DataOf(f), a, b))

SetItem(f, key, arg) ==
    /\ dicts' = [dicts EXCEPT ![frames[f]] = FrameSetItem(DataOf(f), key, arg)]
    /\ last' = [NoCall EXCEPT !.op = "setitem", !.src = f, !.key = key, !.arg = arg]
    /\ UNCHANGED frames
    /\ UNCHANGED FrameOther

Counts == 0..(MaxLen + 1)
SliceBounds == {None} \cup 0..MaxLen
SetArgs == {[isList |-> FALSE, scalar |-> 7, list |-> <<>>],
            [isList |-> TRUE, scalar |-> 0, list |-> <<7, 8>>]}
Live == 1..Len(frames)

NextFrame ==
    \/ \E data \in {None, UserMapping} : NewFrame(data)
    \/ CreateMockDataframe(UserMapping)
    \/ \E f \in Live, n \in Counts : MockTail(f, n)
    \/ \E f \in Live, n \in Counts : MockHead(f, n)
    \/ \E f \in Live, a \in SliceBounds, b \in SliceBounds : IlocSlice(f, a, b)
    \/ \E f \in Live, key \in {"a", "c"}, arg \in SetArgs : SetItem(f, key, arg)

SpecFrame == InitFrame /\ [][NextFrame]_vars

\* Construction and column assignment alone
NextAssign ==
    \/ \E data \in {None, UserMapping} : NewFrame(data)
    \/ CreateMockDataframe(UserMapping)
    \/ \E f \in Live, key \in {"a", "c"}, arg \in SetArgs : SetItem(f, key, arg)

SpecAssign == InitFrame /\ [][NextAssign]_vars

----------------------------------------------------------------------------
(* Positional reads of one MockDataFrame: df[key][i], df[key].iloc[i] and   *)
(* df.iloc[i].  The frame is frame 1 of the heap, built from the mapping.   *)

InitRead ==
    /\ dicts \in {<<m>> : m \in Mappings}
    /\ frames = <<UserMapping>>
    /\ last = NoCall
    /\ FrameIdle

Read(op, f, key, i, raises, value, row) ==
    /\ last' = [NoCall EXCEPT !.op = op, !.src = f, !.key = key, !.a = i,
                              !.raised = raises,
                              !.value = IF raises THEN 0 ELSE value,
                              !.row = IF raises THEN <<>> ELSE row]
    /\ UNCHANGED <<dicts, frames>>
    /\ UNCHANGED FrameOther

\* df[key][i]: MockDataFrame.__getitem__ then MockSeries.__getitem__
SeriesGet(f, key, i) ==
    LET values == FrameGetItem(DataOf(f), key)
    IN  Read("get", f, key, i, ReadRaises(values, i), ReadValue(values, i), <<>>)

\* df[key].iloc[i]: MockSeriesIloc.__getitem__
SeriesIloc(f, key, i) ==
    LET values == FrameGetItem(DataOf(f), key)
    IN  Read("seriesiloc", f, key, i, ReadRaises(values, i), ReadValue(values, i), <<>>)

\* df.iloc[i]: MockIloc.__getitem__ returning MockRow(row_data)
IlocRow(f, i) ==
    Read("row", f, "", i, RowRaises(DataOf(f), i), 0, RowData(DataOf(f), i))

Indices == (-(MaxLen + 1))..(MaxLen + 1)

NextRead ==
    \/ \E f \in Live, key \in Keys, i \in Indices : SeriesGet(f, key, i)
    \/ \E f \in Live, key \in Keys, i \in Indices : SeriesIloc(f, key, i)
    \/ \E f \in Live, i \in Indices : IlocRow(f, i)

SpecRead == InitRead /\ [][NextRead]_vars

----------------------------------------------------------------------------
(* Properties of MockDataFrame *)

EqualColumns(d, L) == \A j \in 1..Len(d) : Len(d[j][2]) = L

\* C2: for a Table whose columns all have length L and n >= 0, head(n) and
\* tail(n) have length min(n, L); head keeps the first min(n, L) rows and tail
\* the last min(n, L) rows of every column.
C2_HeadTailLength ==
    \A L \in 0..(MaxLen + 2) :
        (last.op \in {"head", "tail"} /\ EqualColumns(DataOf(last.src), L)) =>
            LET src == DataOf(last.src)
                dst == DataOf(last.dst)
                m   == Min2(last.a, L)
            IN  /\ FrameLen(dst) = (IF src = <<>> THEN 0 ELSE m)
                /\ Len(dst) = Len(src)
                /\ \A j \in 1..Len(src) :
                      dst[j] = <<src[j][1],
                                 IF last.op = "head" THEN SubSeq(src[j][2], 1, m)
                                 ELSE SubSeq(src[j][2], L - m + 1, L)>>

\* C4: for a Table with columns of equal length L and 0 <= a <= b <= L,
\* rows_in_range(a:b) has exactly b - a rows and its row k is row a + k of the
\* Table in every column; an omitted start is 0 and an omitted stop is L.
C4_RowsInRange ==
    \A L \in 0..(MaxLen + 2) :
        LET a == IF last.a = None THEN 0 ELSE last.a
            b == IF last.b = None THEN L ELSE last.b
        IN  (last.op = "slice" /\ EqualColumns(DataOf(last.src), L) /\ a <= b /\ b <= L) =>
                LET src == DataOf(last.src)
                    dst == DataOf(last.dst)
                IN  /\ FrameLen(dst) = (IF src = <<>> THEN 0 ELSE b - a)
                    /\ Len(dst) = Len(src)
                    /\ \A j \in 1..Len(src) :
                          /\ dst[j][1] = src[j][1]
                          /\ Len(dst[j][2]) = b - a
                          /\ \A k \in 0..(b - a - 1) : dst[j][2][k + 1] = src[j][2][a + k + 1]

\* C9: a set_column on one Table never changes the column names or the column
\* contents seen through any other Table.
C9_NoSharedState ==
    [][last'.op = "setitem" =>
          \A g \in 1..Len(frames) : g # last'.src => dicts'[frames'[g]] = dicts[frames[g]]]_vars

\* C8: set_column(name, v) makes get_column(name) the one-element column [v]
\* for a scalar v and v itself for a list v; it adds name if absent and
\* replaces it if present, leaves the other columns of the Table unchanged,
\* and afterwards length() is the length of the Table's first column.
C8_SetColumn ==
    [][last'.op = "setitem" =>
          LET f     == last'.src
              key   == last'.key
              arg   == last'.arg
              d     == dicts[frames[f]]
              d2    == dicts'[frames'[f]]
              first == IF d = <<>> THEN key ELSE d[1][1]
          IN  /\ FrameGetItem(d2, key) = (IF arg.isList THEN arg.list ELSE <<arg.scalar>>)
              /\ DictKeys(d2) = DictKeys(d) \cup {key}
              /\ Len(d2) = Cardinality(DictKeys(d2))
              /\ \A k \in DictKeys(d) \ {key} : DictGet(d2, k) = DictGet(d, k)
              /\ d2[1][1] = first
              /\ FrameLen(d2) = Len(DictGet(d2, first))
              /\ (FrameLen(d2) = 0 <=> DictGet(d2, first) = <<>>)]_vars

\* C8 witness: a scalar was assigned to a new column of a Table with two
\* columns and more than one row
C8_Witness ==
    /\ last.op = "setitem" /\ ~last.arg.isList /\ last.key = "c"
    /\ Len(DataOf(last.src)) = 3
    /\ FrameLen(DataOf(last.src)) = MaxLen
    /\ FrameGetItem(DataOf(last.src), "c") = <<last.arg.scalar>>

\* C3: Column.get(i), Column.iloc[i] and Table.row_at(i) never raise; each
\* returns the stored value at a valid position and 0 out of the column's
\* bounds, in row_at independently per column.
Lenient(values, i, got) ==
    /\ (0 <= i /\ i < Len(values)) => got = values[i + 1]
    /\ (i >= Len(values) \/ i < -Len(values)) => got = 0

C3_ReadsNeverRaise ==
    /\ last.op \in {"get", "seriesiloc", "row"} => ~last.raised
    /\ (last.op \in {"get", "seriesiloc"} /\ ~last.raised) =>
          Lenient(FrameGetItem(DataOf(last.src), last.key), last.a, last.value)
    /\ (last.op = "row" /\ ~last.raised) =>
          \A k \in DictKeys(DataOf(last.src)) :
              Lenient(DictGet(DataOf(last.src), k), last.a, RowGet(last.row, k))

----------------------------------------------------------------------------
(* generate_mock_price_data.  Prices are decimal fixed point: Scale units   *)
(* make 1.0, and a product is rounded down to a whole unit.  A symbol is    *)
(* the sequence of its characters.                                          *)

Scale == 10000000
Tick == 100                    \* 0.00001, the fifth decimal place

Lowers == <<"a","b","c","d","e","f","g","h","i","j","k","l","m",
            "n","o","p","q","r","s","t","u","v","w","x","y","z">>
Uppers == <<"A","B","C","D","E","F","G","H","I","J","K","L","M",
            "N","O","P","Q","R","S","T","U","V","W","X","Y","Z">>

\* str.upper, character by character
UpperChar(c) == IF \E i \in 1..26 : Lowers[i] = c
                THEN Uppers[CHOOSE i \in 1..26 : Lowers[i] = c] ELSE c
StrUpper(sym) == [i \in 1..Len(sym) |-> UpperChar(sym[i])]

\* base_prices, with the prices in units
base_prices ==
    << << <<"E","U","R","U","S","D">>, 11000000 >>,
       << <<"G","B","P","U","S","D">>, 12500000 >>,
       << <<"U","S","D","J","P","Y">>, 1100000000 >>,
       << <<"A","U","D","U","S","D">>, 7500000 >>,
       << <<"U","S","D","C","A","D">>, 12500000 >>,
       << <<"N","Z","D","U","S","D">>, 7000000 >>,
       << <<"U","S","D","C","H","F">>, 9200000 >> >>

\* base_prices.get(symbol.upper(), 1.0000)
SymbolKey(sym) == StrUpper(sym)
BasePrice(sym) ==
    IF SymbolKey(sym) \in DictKeys(base_prices)
    THEN DictGet(base_prices, SymbolKey(sym)) ELSE Scale

\* x * num / den on the unit grid, without leaving 32 bits
MulDiv(x, num, den) == (x \div den) * num + ((x % den) * num) \div den

\* round(x, 5): to the nearest tick, a tie to the even one
Round5(x) ==
    LET q == x \div Tick
        r == x % Tick
    IN  IF 2 * r < Tick THEN q * Tick
        ELSE IF 2 * r > Tick THEN (q + 1) * Tick
        ELSE IF q % 2 = 0 THEN q * Tick ELSE (q + 1) * Tick

\* price_change = current_price * change_percent, the percentage in 1/10000
PriceChange(current_price, chg) == MulDiv(current_price, chg, 10000)

\* volatility = abs(price_change) * random.uniform(1.2, 2.0), the factor in 1/10
VolatilitySigned(price_change, mult) == MulDiv(price_change, mult, 10)
Volatility(price_change, mult) == MulDiv(Abs(price_change), mult, 10)

\* current_price = close_price
AdvanceFromHigh(close_price, high_price) == high_price
Advance(close_price, high_price) == close_price

\* the rows appended by the loop body, one per draw, from current_price
RECURSIVE GenRows(_, _)
GenRows(current_price, draws) ==
    IF draws = <<>> THEN <<>>
    ELSE LET d            == Head(draws)
             price_change == PriceChange(current_price, d.chg)
             open_price   == current_price
             close_price  == current_price + price_change
             volatility   == Volatility(price_change, d.mult)
             high_price   == Max2(open_price, close_price) + volatility
             low_price    == Min2(open_price, close_price) - volatility
             row          == [open   |-> Round5(open_price),
                              high   |-> Round5(high_price),
                              low    |-> Round5(low_price),
                              close  |-> Round5(close_price),
                              volume |-> d.vol]
         IN  <<row>> \o GenRows(Advance(close_price, high_price), Tail(draws))

\* the data dict handed to MockDataFrame
GenData(sym, draws) ==
    LET rows == GenRows(BasePrice(sym), draws)
    IN  << <<"open",   [i \in 1..Len(rows) |-> rows[i].open]>>,
           <<"high",   [i \in 1..Len(rows) |-> rows[i].high]>>,
           <<"low",    [i \in 1..Len(rows) |-> rows[i].low]>>,
           <<"close",  [i \in 1..Len(rows) |-> rows[i].close]>>,
           <<"volume", [i \in 1..Len(rows) |-> rows[i].volume]>> >>

\* the random draws: change_percent in [-0.02, 0.02], the volatility factor in
\* [1.2, 2.0], volume in [1000, 10000], ends included
ChangeDraws == {-200, -37, 0, 200}
FactorDraws == {12, 20}
VolumeDraws == {1000, 10000}
Draws == [chg : ChangeDraws, mult : FactorDraws, vol : VolumeDraws]

SymbolDraws == { <<"E","U","R","U","S","D">>, <<"e","u","r","u","s","d">>,
                 <<"U","s","d","J","p","y">>, <<"X","Y","Z">> }

RECURSIVE SeqsOfLen(_, _)
SeqsOfLen(S, n) ==
    IF n = 0 THEN {<<>>} ELSE {Append(xs, v) : xs \in SeqsOfLen(S, n - 1), v \in S}

GenIdle ==
    /\ series = <<>> /\ window = 0 /\ rolled = {}
    /\ rollMax = <<>> /\ rollMin = <<>> /\ rollMean = <<>>
    /\ column = <<>> /\ dropped = [called |-> FALSE, data |-> <<>>]
    /\ dicts = <<>> /\ frames = <<>> /\ last = [op |-> "none"]

InitGen ==
    /\ genCall \in [called : {FALSE}, symbol : SymbolDraws, timeframe : {"1h", "5m"},
                    limit : 0..MaxRows]
    /\ rng \in SeqsOfLen(Draws, genCall.limit)
    /\ table = <<>>
    /\ GenIdle

GenerateMockPriceData ==
    /\ ~genCall.called
    /\ genCall' = [genCall EXCEPT !.called = TRUE]
    /\ table' = GenData(genCall.symbol, rng)
    /\ UNCHANGED <<series, window, rolled, rollMax, rollMin, rollMean, column, dropped,
                   dicts, frames, last, rng>>

NextGen == GenerateMockPriceData

SpecGen == InitGen /\ [][NextGen]_vars

----------------------------------------------------------------------------
(* Properties of the generator *)

Col(name) == DictGet(table, name)

\* C6: generate returns exactly the columns open, high, low, close, volume,
\* each of length n; in every row high >= max(open, close),
\* low <= min(open, close) and volume is an integer in [1000, 10000],
\* whatever the random draws.
C6_GeneratedShape ==
    genCall.called =>
        /\ Len(table) = 5
        /\ DictKeys(table) = {"open", "high", "low", "close", "volume"}
        /\ \A j \in 1..5 : Len(table[j][2]) = genCall.limit
        /\ \A i \in 1..genCall.limit :
              /\ Col("high")[i] >= Max2(Col("open")[i], Col("close")[i])
              /\ Col("low")[i] <= Min2(Col("open")[i], Col("close")[i])
              /\ Col("volume")[i] \in 1000..10000

\* C6 witness: a full-length table with a rising and a falling row
C6_Witness ==
    /\ genCall.called /\ genCall.limit = MaxRows /\ MaxRows >= 2
    /\ \E i \in 1..Len(Col("open")) : Col("close")[i] > Col("open")[i]
    /\ \E i \in 1..Len(Col("open")) : Col("close")[i] < Col("open")[i]

\* the symbol's reference price: the price of the known code that equals the
\* symbol when case is ignored, 1.0 when there is none
LowerChar(c) == IF \E i \in 1..26 : Uppers[i] = c
                THEN Lowers[CHOOSE i \in 1..26 : Uppers[i] = c] ELSE c
SameIgnoringCase(s, t) ==
    /\ Len(s) = Len(t)
    /\ \A i \in 1..Len(s) : LowerChar(s[i]) = LowerChar(t[i])
ReferencePrice(sym) ==
    IF \E j \in 1..Len(base_prices) : SameIgnoringCase(sym, base_prices[j][1])
    THEN base_prices[CHOOSE j \in 1..Len(base_prices) : SameIgnoringCase(sym, base_prices[j][1])][2]
    ELSE Scale

\* C10: with n >= 1 rows, open[0] is the symbol's base reference price
\* (case-insensitive lookup, 1.0 for an unknown symbol) and open[i+1] equals
\* close[i] for every 0 <= i < n-1, whatever the random draws.
C10_RandomWalk ==
    (genCall.called /\ genCall.limit >= 1) =>
        /\ Col("open")[1] = ReferencePrice(genCall.symbol)
        /\ \A i \in 1..(genCall.limit - 1) : Col("open")[i + 1] = Col("close")[i]

\* C10 witness: a known symbol given in lower case, and a price that moved
\* between two rows
C10_Witness ==
    /\ genCall.called /\ genCall.limit >= 2
    /\ genCall.symbol = <<"e","u","r","u","s","d">>
    /\ Col("open")[1] = 11000000
    /\ Col("open")[2] # Col("open")[1]

====
